---- MODULE Spec2Model ----
(***************************************************************************)
(* The query dispatch and synthesis pipeline of the orchestrator:          *)
(* POST /search (quota gate, classification, agent fan-out, fallback,      *)
(* synthesis, the streamed events) together with the user store writes of  *)
(* /register and /login.                                                   *)
(*                                                                         *)
(* Time is counted in hours.  A stored last_reset_time is an ISO string,   *)
(* modelled as a record [kind, t]; a datetime is a number of hours, and    *)
(* Python's None datetime is NoDate.                                       *)
(***************************************************************************)
EXTENDS Integers, Sequences, FiniteSets, TLC

\* ------------------------------------------------------------------ bounds

\* The clock stops advancing at MaxNow hours.
MaxNow == 30

\* The clock advances by one of these steps (hours).
TickSteps == {6, 24}

\* Run slots: requests being served at the same time.
Runs == {"r1"}

Emails == {"ann@x"}

Ips == {"10.0.0.1"}

\* The identities a request is counted under: an account or a remote address.
Callers == Emails \cup Ips

\* ------------------------------------------------------- program constants

\* requests_left = 5 (the identified caller's daily cap)
DailyCap == 5

\* timedelta(hours=24)
WindowHours == 24

\* max_quota_display = 1 (the anonymous caller's daily cap)
GuestCap == 1

UserDeniedMessage == "Daily request limit reached (5/day). Please wait 24 hours."

GuestDeniedMessage == "Guest limit reached (1/day). Please login or register to get 5 requests/day."

SynthesisFailed == "Synthesis failed."

FallbackName == "Orchestrator LLM Fallback Responses"

\* Python's None where a string or a url is expected.
None == "None"

\* Python's None where a datetime is expected.
NoDate == -1

\* ------------------------------------------------------------------- state

VARIABLES
    now,        \* datetime.now(timezone.utc), in hours
    users,      \* the "users" collection: email -> document
    session,    \* emails with a logged-in session (current_user.is_authenticated)
    limiter,    \* the "1 per day" limiter window of each remote address
    agents,     \* the "orchestrator_agents" collection, in storage order
    run,        \* per request slot: the locals of search() and generate()
    admitLog    \* history: per caller identity, the times of its admitted
                \* runs of the last WindowHours hours

vars == <<now, users, session, limiter, agents, run, admitLog>>

\* --------------------------------------------------------------- timestamps

NoStamp == [kind |-> "none", t |-> 0]

\* datetime.isoformat()
isoformat(d) == [kind |-> "iso", t |-> d]

\* datetime.fromisoformat(s) inside try/except ValueError: the parsed datetime,
\* or NoDate when the string does not parse.
fromisoformat(s) == IF s.kind = "iso" THEN s.t ELSE NoDate

\* if last_reset_str: ... fromisoformat ... (None and "" are falsy)
ParseLastReset(last_reset_str) ==
    IF last_reset_str.kind = "none" THEN NoDate ELSE fromisoformat(last_reset_str)

\* --------------------------------------------------------------- user store

NoUser == [exists |-> FALSE, requests_left |-> 0, last_reset_time |-> NoStamp]

\* Mutant: the update writes the balance and leaves the timestamp as it was.
update_document_BalanceOnly(store, email, update_data) ==
    IF store[email].exists
    THEN [store EXCEPT ![email].requests_left = update_data.requests_left]
    ELSE store

\* SQLiteDB.update_document on "users": read the document, merge update_data,
\* write it back; a missing document is left missing.
update_document(store, email, update_data) ==
    IF store[email].exists
    THEN [store EXCEPT ![email] = [exists |-> TRUE,
                                   requests_left |-> update_data.requests_left,
                                   last_reset_time |-> update_data.last_reset_time]]
    ELSE store

\* ------------------------------------------------------------ agent registry

Categories == {"Restaurant", "Bar", "Plumber"}

\* An agent document.  private_key is "" when absent; key_ok says whether an
\* encrypted key decrypts under config.SECRET_KEY.
Agent(url, issuer, name, cats, cat, pk, enc, ok, owner, public) ==
    [url |-> url, issuer_id |-> issuer, name |-> name, categories |-> cats,
     category |-> cat, private_key |-> pk, private_key_encrypted |-> enc,
     key_ok |-> ok, user_id |-> owner, is_public |-> public]

\* The registry the runs read: a record as register_agent writes it, a record
\* with a legacy unencrypted key, and a legacy record with the single category
\* field whose key no longer decrypts.
Registry ==
    << Agent("https://a", "iss1", "A", <<"Restaurant", "Bar">>, "Restaurant",
             "enc", TRUE, TRUE, "ann@x", TRUE),
       Agent("https://b", "iss2", "B", <<"Plumber">>, "Plumber",
             "pem", FALSE, TRUE, "ann@x", FALSE),
       Agent("https://a", "iss3", "C", <<>>, "Restaurant",
             "enc", TRUE, FALSE, "bob@x", FALSE) >>

Range(s) == {s[i] : i \in 1..Len(s)}

\* get_registered_agents()
get_registered_agents == agents

\* Mutant: the legacy single field is not read.
AgentCategories_NoLegacy(agent) == Range(agent.categories)

\* categories = agent.get("categories", []); the legacy single field when empty
AgentCategories(agent) ==
    IF agent.categories = <<>> /\ agent.category # None
    THEN {agent.category}
    ELSE Range(agent.categories)

\* Mutant: only the agents marked public are matched.
Matches_PublicOnly(agent, predicted_category) ==
    agent.is_public /\ (Range(predicted_category) \cap AgentCategories(agent)) # {}

\* intersection = list(set(predicted_category) & set(categories))
Matches(agent, predicted_category) ==
    (Range(predicted_category) \cap AgentCategories(agent)) # {}

RECURSIVE FilterSeq(_, _)
FilterSeq(s, cats) ==
    IF s = <<>> THEN <<>>
    ELSE IF Matches(Head(s), cats)
         THEN <<Head(s)>> \o FilterSeq(Tail(s), cats)
         ELSE FilterSeq(Tail(s), cats)

\* the loop over get_registered_agents() building matching_agents
MatchingAgents(predicted_category) == FilterSeq(get_registered_agents, predicted_category)

\* _get_decrypted_private_key: "" stands for None
GetDecryptedPrivateKey(agent) ==
    IF agent.private_key = "" THEN ""
    ELSE IF agent.private_key_encrypted
         THEN (IF agent.key_ok THEN "pem" ELSE "")
         ELSE agent.private_key


\* ------------------------------------------------------ anonymous limiter

\* The window of a remote address under the fixed-window "1 per day" limit:
\* the hits counted in it and the time it expires.
NoWindow == [hits |-> 0, expires |-> 0]

\* The window as the limiter sees it at time t: an expired window is dropped.
CurrentWindow(w, t) == IF w.hits > 0 /\ w.expires <= t THEN NoWindow ELSE w

\* limiter.limit("1 per day"): TRUE when the hit is within the limit.
LimiterAdmits(w, t) == CurrentWindow(w, t).hits < GuestCap

\* The window after a hit at time t.  A hit over the limit changes nothing the
\* limiter decides later, so the count stops at the limit.
LimiterHit(w, t) ==
    LET c == CurrentWindow(w, t)
    IN  [hits |-> IF c.hits < GuestCap THEN c.hits + 1 ELSE c.hits,
         expires |-> IF c.hits = 0 THEN t + WindowHours ELSE c.expires]

\* --------------------------------------------------------------- run state

NoCalls == [classify |-> 0, send |-> 0, fallback |-> 0, synth |-> 0]

NoPre == [requests_left |-> 0, last_reset_time |-> NoStamp, at |-> 0]

NoCaller == [kind |-> "none", id |-> None]

IdleRun ==
    [pc |-> "idle", decision |-> "none", caller |-> NoCaller,
     requests_left |-> 0, events |-> <<>>,
     predicted_category |-> <<>>, matching_agents |-> <<>>, tasks |-> <<>>,
     agent_responses |-> <<>>, context |-> <<>>,
     calls |-> NoCalls, synthesis |-> "none", writes |-> 0, pre |-> NoPre]

Event(type, data) == [type |-> type, data |-> data]

\* Mutant: the denial does not return, and the stream is served after it.
Respond_FallsThrough(r, caller, body, pre) ==
    [run EXCEPT ![r] = [@ EXCEPT !.pc = "quota", !.decision = "denied",
                                 !.caller = caller, !.events = body, !.pre = pre]]

\* A response served whole (not streamed) with this body.
Respond(r, caller, body, pre) ==
    [run EXCEPT ![r] = [@ EXCEPT !.pc = "done", !.decision = "denied",
                                 !.caller = caller, !.events = body, !.pre = pre]]

\* Mutant: the exception is swallowed and the stream is served.
Fail_ServesStream(r, caller, pre) ==
    [run EXCEPT ![r] = [@ EXCEPT !.pc = "quota", !.decision = "error",
                                 !.caller = caller, !.pre = pre]]

\* An unhandled exception in search(): a 500 response without any event.
Fail(r, caller, pre) ==
    [run EXCEPT ![r] = [@ EXCEPT !.pc = "failed", !.decision = "error",
                                 !.caller = caller, !.pre = pre]]

\* ------------------------------------------------------------- quota gate

\* Mutant: the comparison is turned around, so a running window counts as over.
ResetDue_Inverted(last_reset, now_utc) ==
    last_reset = NoDate \/ (now_utc - last_reset) < WindowHours

\* Mutant: the window also ends at exactly 24 hours.
ResetDue_AtLeast24(last_reset, now_utc) ==
    last_reset = NoDate \/ (now_utc - last_reset) >= WindowHours

\* if last_reset is None or (now_utc - last_reset) > timedelta(hours=24)
ResetDue(last_reset, now_utc) ==
    last_reset = NoDate \/ (now_utc - last_reset) > WindowHours

\* Mutant: the denial tests < 0.
Exhausted_StrictlyNegative(requests_left) == requests_left < 0

\* if requests_left <= 0: the denial
Exhausted(requests_left) == requests_left <= 0

\* Mutant: the decrement is forgotten.
Consume_Forgotten(requests_left) == requests_left

\* requests_left -= 1
Consume(requests_left) == requests_left - 1

\* Mutant: every admitted request stamps the current time.
StampOnConsume_Always(last_reset, now_utc) == now_utc

\* The timestamp written back: now on the first request after a reset.
\*   if last_reset is None: last_reset = now_utc
StampOnConsume(last_reset, now_utc) ==
    IF last_reset = NoDate THEN now_utc ELSE last_reset

\* The authenticated branch of search(), for the user with this email.
\* db is the outcome of the store: "ok", "read_fails" or "update_fails".
SearchIdentified(r, email, db) ==
    LET caller       == [kind |-> "user", id |-> email]
        user_doc     == users[email]
        pre          == [requests_left |-> user_doc.requests_left,
                         last_reset_time |-> user_doc.last_reset_time, at |-> now]
        parsed       == ParseLastReset(user_doc.last_reset_time)
        reset        == ResetDue(parsed, now)
        requests_0   == IF reset THEN DailyCap ELSE user_doc.requests_left
        last_reset_0 == IF reset THEN NoDate ELSE parsed
        requests_1   == Consume(requests_0)
        last_reset_1 == StampOnConsume(last_reset_0, now)
    IN  IF db = "read_fails" \/ ~user_doc.exists
        THEN /\ run' = Fail(r, caller, NoPre)
             /\ UNCHANGED <<users, admitLog>>
        ELSE IF Exhausted(requests_0)
        THEN /\ run' = Respond(r, caller, <<Event("final", UserDeniedMessage)>>, pre)
             /\ UNCHANGED <<users, admitLog>>
        ELSE IF db = "update_fails"
        THEN /\ run' = Fail(r, caller, pre)
             /\ UNCHANGED <<users, admitLog>>
        ELSE /\ users' = update_document(users, email,
                             [requests_left |-> requests_1,
                              last_reset_time |-> isoformat(last_reset_1)])
             /\ admitLog' = [admitLog EXCEPT ![email] = Append(@, now)]
             /\ run' = [run EXCEPT ![r] = [@ EXCEPT !.pc = "quota",
                                                    !.decision = "admitted",
                                                    !.caller = caller,
                                                    !.requests_left = requests_1,
                                                    !.writes = @ + 1,
                                                    !.pre = pre]]

\* Mutant: the limiter's refusal is not acted on.
SearchGuest_IgnoresRefusal(r, ip) ==
    LET caller == [kind |-> "guest", id |-> ip]
    IN  /\ limiter' = [limiter EXCEPT ![ip] = LimiterHit(@, now)]
        /\ run' = [run EXCEPT ![r] = [@ EXCEPT !.pc = "quota",
                                               !.decision = "admitted",
                                               !.caller = caller]]
        /\ admitLog' = [admitLog EXCEPT ![ip] = Append(@, now)]

\* The guest branch of search(), for the caller at this remote address.
SearchGuest(r, ip) ==
    LET caller == [kind |-> "guest", id |-> ip]
    IN  /\ limiter' = [limiter EXCEPT ![ip] = LimiterHit(@, now)]
        /\ IF LimiterAdmits(limiter[ip], now)
           THEN /\ run' = [run EXCEPT ![r] = [@ EXCEPT !.pc = "quota",
                                                        !.decision = "admitted",
                                                        !.caller = caller]]
                /\ admitLog' = [admitLog EXCEPT ![ip] = Append(@, now)]
           ELSE /\ run' = Respond(r, caller, <<Event("final", GuestDeniedMessage)>>, NoPre)
                /\ UNCHANGED admitLog

\* Mutant: the "1 per day" limit is applied before the caller is told apart, so
\* a logged-in caller's request is counted in the window of its address.
Search_UserHitsLimiter(r) ==
    /\ run[r].pc = "idle"
    /\ \/ /\ \E email \in session : \E db \in {"ok", "read_fails", "update_fails"} :
                SearchIdentified(r, email, db)
          /\ \E ip \in Ips : limiter' = [limiter EXCEPT ![ip] = LimiterHit(@, now)]
       \/ /\ \E ip \in Ips : SearchGuest(r, ip)
          /\ UNCHANGED users
    /\ UNCHANGED <<now, session, agents>>

\* POST /search up to the return of the response object.
Search(r) ==
    /\ run[r].pc = "idle"
    /\ \/ /\ \E email \in session : \E db \in {"ok", "read_fails", "update_fails"} :
                SearchIdentified(r, email, db)
          /\ UNCHANGED limiter
       \/ /\ \E ip \in Ips : SearchGuest(r, ip)
          /\ UNCHANGED users
    /\ UNCHANGED <<now, session, agents>>


\* ------------------------------------------------------------- generate()

storeVars == <<now, users, session, limiter, agents, admitLog>>

\* Mutant: the balance is read from the store when the event is built.
QuotaData_Rereads(rn) ==
    IF rn.caller.kind = "user"
    THEN [remaining |-> users[rn.caller.id].requests_left, max |-> DailyCap]
    ELSE [remaining |-> 0, max |-> GuestCap]

\* The quota event: the balance captured at admission for a logged-in caller,
\* 0 of 1 for a guest.
QuotaData(rn) ==
    IF rn.caller.kind = "user"
    THEN [remaining |-> rn.requests_left, max |-> DailyCap]
    ELSE [remaining |-> 0, max |-> GuestCap]

\* generate() up to its first yield.
EmitQuota(r) ==
    /\ run[r].pc = "quota"
    /\ run' = [run EXCEPT ![r] = [@ EXCEPT !.pc = "classify",
                                           !.events = Append(@, Event("quota", QuotaData(run[r])))]]
    /\ UNCHANGED storeVars

\* What the classification call gives back: it raises, it returns something
\* that is no dict, a dict whose category is None, or a dict with a list.
Predictions ==
    {[kind |-> "raises", category |-> <<>>],
     [kind |-> "not_dict", category |-> <<>>],
     [kind |-> "null_category", category |-> <<>>]}
    \cup {[kind |-> "dict", category |-> c] :
             c \in {<<>>, <<"Restaurant">>, <<"Plumber">>, <<"Restaurant", "Plumber">>}}

\* An exception leaves generate(): the stream ends where it is.
Crash(rn) == [rn EXCEPT !.pc = "crashed"]

\* ", ".join(predicted_category): the categories in order, separator between.
RECURSIVE Join(_)
Join(cats) ==
    IF cats = <<>> THEN ""
    ELSE IF Len(cats) = 1 THEN cats[1]
    ELSE cats[1] \o ", " \o Join(Tail(cats))

\* Mutant: the category line is held back instead of yielded.
AfterClassify_HoldsCategory(rn, prediction) ==
    LET called == [rn EXCEPT !.calls.classify = @ + 1]
    IN  IF prediction.kind = "dict"
        THEN [called EXCEPT !.pc = "match",
                            !.predicted_category = prediction.category]
        ELSE Crash(called)

\* The classification call and what follows it up to the category yield.
\* predicted_category is bound only when the prediction is a dict, and the join
\* needs a list.
AfterClassify(rn, prediction) ==
    LET called == [rn EXCEPT !.calls.classify = @ + 1]
    IN  IF prediction.kind = "dict"
        THEN [called EXCEPT !.pc = "match",
                            !.predicted_category = prediction.category,
                            !.events = Append(@, Event("category", Join(prediction.category)))]
        ELSE Crash(called)

Classify(r) ==
    /\ run[r].pc = "classify"
    /\ \E prediction \in Predictions :
          run' = [run EXCEPT ![r] = AfterClassify(@, prediction)]
    /\ UNCHANGED storeVars

\* The response fetch_agent_response returns without calling out.
CredentialError(agent) ==
    [name |-> None, agent_url |-> IF agent.url = "" THEN "Unknown" ELSE agent.url,
     error |-> TRUE, result |-> None]

\* Mutant: the key is not looked at before the call.
InvalidRegistration_IgnoresKey(agent) ==
    agent.url = "" \/ agent.issuer_id = ""

\* if not url or not issuer_id or not private_key
InvalidRegistration(agent) ==
    agent.url = "" \/ agent.issuer_id = "" \/ GetDecryptedPrivateKey(agent) = ""

\* A task of asyncio.gather as it stands at its first await: resolved with the
\* credential error, or waiting for send_secure_request.  sent counts the
\* calls of send_secure_request made for the agent.
StartTask(agent) ==
    IF InvalidRegistration(agent)
    THEN [state |-> "done", agent |-> agent, sent |-> 0,
          response |-> CredentialError(agent)]
    ELSE [state |-> "inflight", agent |-> agent, sent |-> 1,
          response |-> CredentialError(agent)]

SentCount(tasks) == Cardinality({i \in 1..Len(tasks) : tasks[i].state = "inflight"})

\* Mutant: the calls are awaited one after the other, so only the first task
\* has started when the loop first waits.
AfterMatch_OneAtATime(rn, matching_agents) ==
    IF matching_agents = <<>>
    THEN [rn EXCEPT !.pc = "fallback", !.agent_responses = <<>>]
    ELSE LET tasks == [i \in 1..Len(matching_agents) |->
                          IF i = 1 THEN StartTask(matching_agents[i])
                          ELSE [state |-> "pending", agent |-> matching_agents[i], sent |-> 0,
                                response |-> CredentialError(matching_agents[i])]]
         IN  [rn EXCEPT !.pc = "gather", !.matching_agents = matching_agents,
                        !.tasks = tasks, !.calls.send = SentCount(tasks)]

\* After the category yield: the matching loop, then asyncio.run(run_async_fetch())
\* up to the point where every task waits or has returned.
AfterMatch(rn, matching_agents) ==
    IF matching_agents = <<>>
    THEN [rn EXCEPT !.pc = "fallback", !.agent_responses = <<>>]
    ELSE LET tasks == [i \in 1..Len(matching_agents) |-> StartTask(matching_agents[i])]
         IN  [rn EXCEPT !.pc = "gather", !.matching_agents = matching_agents,
                        !.tasks = tasks, !.calls.send = SentCount(tasks)]

\* Mutant: the predicted categories are kept in one place for all requests, so
\* the loop may read those of another request.
Match_SharedCategory(r) ==
    /\ run[r].pc = "match"
    /\ \E o \in DOMAIN run :
          /\ run[o].calls.classify > 0
          /\ run' = [run EXCEPT ![r] = AfterMatch(@, MatchingAgents(run[o].predicted_category))]
    /\ UNCHANGED storeVars

Match(r) ==
    /\ run[r].pc = "match"
    /\ run' = [run EXCEPT ![r] = AfterMatch(@, MatchingAgents(run[r].predicted_category))]
    /\ UNCHANGED storeVars

\* What send_secure_request gives back: a response, an error-marked response,
\* or an exception (a timeout or a network error it does not catch).
SendOutcomes == {"ok", "error", "raises"}

\* agent_response["name"] = agent_name
AgentResponse(agent, outcome) ==
    [name |-> agent.name, agent_url |-> agent.url,
     error |-> (outcome = "error"), result |-> outcome]

\* One send_secure_request resolves.  gather() has no return_exceptions: the
\* first exception leaves asyncio.run, which cancels the tasks still waiting,
\* and then leaves generate().
AfterSend(rn, i, outcome) ==
    IF outcome = "raises"
    THEN Crash([rn EXCEPT !.tasks =
                    [j \in 1..Len(rn.tasks) |->
                        IF j = i THEN [rn.tasks[j] EXCEPT !.state = "raised"]
                        ELSE IF rn.tasks[j].state = "inflight"
                             THEN [rn.tasks[j] EXCEPT !.state = "cancelled"]
                             ELSE rn.tasks[j]]])
    ELSE [rn EXCEPT !.tasks[i] = [@ EXCEPT !.state = "done",
                                          !.response = AgentResponse(rn.tasks[i].agent, outcome)]]

AgentReply(r) ==
    /\ run[r].pc = "gather"
    /\ \E i \in 1..Len(run[r].tasks) : \E outcome \in SendOutcomes :
          /\ run[r].tasks[i].state = "inflight"
          /\ run' = [run EXCEPT ![r] = AfterSend(@, i, outcome)]
    /\ UNCHANGED storeVars

\* Mutant: the error-marked results are dropped from the list.
GatherResults_DropFailed(tasks) ==
    SelectSeq([i \in 1..Len(tasks) |-> tasks[i].response], LAMBDA x : ~x.error)

\* asyncio.gather returns the results in the order of its tasks.
GatherResults(tasks) == [i \in 1..Len(tasks) |-> tasks[i].response]

\* Mutant: the join returns as soon as one task has resolved.
GatherReturn_FirstCompleted(r) ==
    /\ run[r].pc = "gather"
    /\ \E i \in 1..Len(run[r].tasks) : run[r].tasks[i].state = "done"
    /\ run' = [run EXCEPT ![r] = [@ EXCEPT !.pc = "fallback",
                                           !.agent_responses = GatherResults(run[r].tasks)]]
    /\ UNCHANGED storeVars

\* agent_responses = asyncio.run(run_async_fetch()): the join of every task.
GatherReturn(r) ==
    /\ run[r].pc = "gather"
    /\ \A i \in 1..Len(run[r].tasks) : run[r].tasks[i].state = "done"
    /\ run' = [run EXCEPT ![r] = [@ EXCEPT !.pc = "fallback",
                                           !.agent_responses = GatherResults(run[r].tasks)]]
    /\ UNCHANGED storeVars

\* Mutant: the fallback entry carries an error key.
FallbackResponse_ErrorMarked(result_llm) ==
    [name |-> FallbackName, agent_url |-> None, error |-> TRUE, result |-> result_llm]

\* {"name": "Orchestrator LLM Fallback Responses", "agent_url": None, "result": result_llm}
FallbackResponse(result_llm) ==
    [name |-> FallbackName, agent_url |-> None, error |-> FALSE, result |-> result_llm]

\* Mutant: the fallback entry is put in front of the agents' responses.
WithFallback_Prepends(agent_responses, result_llm) ==
    <<FallbackResponse(result_llm)>> \o agent_responses

\* agent_responses.append({... fallback ...})
WithFallback(agent_responses, result_llm) ==
    Append(agent_responses, FallbackResponse(result_llm))

\* Mutant: the agents event is emitted with the list as it stands before the
\* fallback entry is appended.
AfterFallback_EmitsPartial(rn, outcome) ==
    LET called == [rn EXCEPT !.calls.fallback = @ + 1]
    IN  IF outcome = "raises"
        THEN Crash(called)
        ELSE [called EXCEPT !.pc = "synth",
                            !.agent_responses = WithFallback(rn.agent_responses, "answer"),
                            !.events = Append(@, Event("agents", rn.agent_responses))]

\* The fallback call, outside any try, and the agents yield.
AfterFallback(rn, outcome) ==
    LET called == [rn EXCEPT !.calls.fallback = @ + 1]
    IN  IF outcome = "raises"
        THEN Crash(called)
        ELSE LET all == WithFallback(rn.agent_responses, "answer")
             IN  [called EXCEPT !.pc = "synth", !.agent_responses = all,
                                !.events = Append(@, Event("agents", all))]

Fallback(r) ==
    /\ run[r].pc = "fallback"
    /\ \E outcome \in {"ok", "raises"} :
          run' = [run EXCEPT ![r] = AfterFallback(@, outcome)]
    /\ UNCHANGED storeVars

\* Mutant: the context is built from every response.
ValidResponses_All(agent_responses) == agent_responses

\* valid_responses = [r for r in agent_responses if "error" not in r]
ValidResponses(agent_responses) == SelectSeq(agent_responses, LAMBDA x : ~x.error)

\* Mutant: the exception's text is served as the answer.
FinalAnswer_ServesException(outcome) ==
    IF outcome = "raises" THEN "exception" ELSE "synthesis"

\* try: final = llm.generate_llm_answer(syn_prompt) except: "Synthesis failed."
FinalAnswer(outcome) == IF outcome = "raises" THEN SynthesisFailed ELSE "synthesis"

\* After the agents yield: the context, the synthesis call, the final yield.
AfterSynthesize(rn, outcome) ==
    [rn EXCEPT !.pc = "done", !.calls.synth = @ + 1, !.synthesis = outcome,
               !.context = ValidResponses(rn.agent_responses),
               !.events = Append(@, Event("final", FinalAnswer(outcome)))]

Synthesize(r) ==
    /\ run[r].pc = "synth"
    /\ \E outcome \in {"ok", "raises"} :
          run' = [run EXCEPT ![r] = AfterSynthesize(@, outcome)]
    /\ UNCHANGED storeVars

Ended(rn) == rn.pc \in {"done", "crashed", "failed"}

\* Mutant: a response that ended on an exception gives the credit back.
Finish_Refunds(r) ==
    /\ Ended(run[r])
    /\ run' = [run EXCEPT ![r] = IdleRun]
    /\ IF run[r].pc = "crashed" /\ run[r].caller.kind = "user"
       THEN users' = update_document_BalanceOnly(users, run[r].caller.id,
                     [requests_left |-> users[run[r].caller.id].requests_left + 1])
       ELSE UNCHANGED users
    /\ UNCHANGED <<now, session, limiter, agents, admitLog>>

\* The response is over; the slot serves the next request.
Finish(r) ==
    /\ Ended(run[r])
    /\ run' = [run EXCEPT ![r] = IdleRun]
    /\ UNCHANGED storeVars

\* ------------------------------------------------------------ auth router

\* new_user = {..., "requests_left": 5, "last_reset_time": None}
NewUser == [exists |-> TRUE, requests_left |-> DailyCap, last_reset_time |-> NoStamp]

\* POST /register with a valid form: an email already registered is refused.
Register(email) ==
    /\ ~users[email].exists
    /\ users' = [users EXCEPT ![email] = NewUser]
    /\ UNCHANGED <<now, session, limiter, agents, run, admitLog>>

\* should_reset_credits of a login() that renews on every login.
ShouldResetCredits_Always(last_reset_str, now_utc) ==
    IF last_reset_str.kind = "none" THEN TRUE
    ELSE IF fromisoformat(last_reset_str) = NoDate THEN TRUE
    ELSE (now_utc - fromisoformat(last_reset_str)) >= 0

\* should_reset_credits of login()
ShouldResetCredits(last_reset_str, now_utc) ==
    IF last_reset_str.kind = "none" THEN TRUE
    ELSE IF fromisoformat(last_reset_str) = NoDate THEN TRUE
    ELSE (now_utc - fromisoformat(last_reset_str)) > WindowHours

\* The store after a successful login.
LoginRenewal(store, email, now_utc) ==
    IF ShouldResetCredits(store[email].last_reset_time, now_utc)
    THEN update_document(store, email,
             [requests_left |-> DailyCap, last_reset_time |-> NoStamp])
    ELSE store

\* POST /login with the right password.
Login(email) ==
    /\ users[email].exists
    /\ session' = session \cup {email}
    /\ users' = LoginRenewal(users, email, now)
    /\ UNCHANGED <<now, limiter, agents, run, admitLog>>

\* GET /logout
Logout(email) ==
    /\ email \in session
    /\ session' = session \ {email}
    /\ UNCHANGED <<now, users, limiter, agents, run, admitLog>>

\* The admissions of a log that are at most WindowHours old at time t.
Recent(log, t) == SelectSeq(log, LAMBDA at : t - at <= WindowHours)

\* Time passes: the limiter's storage drops the windows that expire.
Tick ==
    /\ \E d \in TickSteps :
          /\ now + d <= MaxNow
          /\ now' = now + d
          /\ limiter' = [ip \in Ips |-> CurrentWindow(limiter[ip], now + d)]
          /\ admitLog' = [c \in Callers |-> Recent(admitLog[c], now + d)]
    /\ UNCHANGED <<users, session, agents, run>>

\* ------------------------------------------------------------ specification

Init ==
    /\ now = 0
    /\ users = [e \in Emails |-> NoUser]
    /\ session = {}
    /\ limiter = [ip \in Ips |-> NoWindow]
    /\ agents = Registry
    /\ run = [r \in Runs |-> IdleRun]
    /\ admitLog = [c \in Callers |-> <<>>]

Next ==
    \/ \E r \in Runs : Search(r)
    \/ \E r \in Runs : EmitQuota(r)
    \/ \E r \in Runs : Classify(r)
    \/ \E r \in Runs : Match(r)
    \/ \E r \in Runs : AgentReply(r)
    \/ \E r \in Runs : GatherReturn(r)
    \/ \E r \in Runs : Fallback(r)
    \/ \E r \in Runs : Synthesize(r)
    \/ \E r \in Runs : Finish(r)
    \/ \E email \in Emails : Register(email)
    \/ \E email \in Emails : Login(email)
    \/ \E email \in Emails : Logout(email)
    \/ Tick

Spec == Init /\ [][Next]_vars

\* ------------------------------------------- runs over every small registry

\* The credential fields an agent document can hold: a key stored in the
\* clear, an encrypted key that decrypts, one that does not, no key, no url,
\* no issuer id.
CredentialShapes ==
    {[url |-> "https://a", issuer_id |-> "iss1", private_key |-> "pem",
      private_key_encrypted |-> FALSE, key_ok |-> TRUE],
     [url |-> "https://a", issuer_id |-> "iss1", private_key |-> "enc",
      private_key_encrypted |-> TRUE, key_ok |-> TRUE],
     [url |-> "https://a", issuer_id |-> "iss1", private_key |-> "enc",
      private_key_encrypted |-> TRUE, key_ok |-> FALSE],
     [url |-> "https://a", issuer_id |-> "iss1", private_key |-> "",
      private_key_encrypted |-> FALSE, key_ok |-> TRUE],
     [url |-> "", issuer_id |-> "iss1", private_key |-> "pem",
      private_key_encrypted |-> FALSE, key_ok |-> TRUE],
     [url |-> "https://a", issuer_id |-> "", private_key |-> "pem",
      private_key_encrypted |-> FALSE, key_ok |-> TRUE]}

\* The tags an agent document can hold: the list, the legacy field without a
\* list, a list beside a legacy field that differs from it, and no tag at all.
TagShapes ==
    {[categories |-> <<"Restaurant", "Bar">>, category |-> None],
     [categories |-> <<"Plumber">>, category |-> None],
     [categories |-> <<"Plumber">>, category |-> "Restaurant"],
     [categories |-> <<>>, category |-> "Restaurant"],
     [categories |-> <<>>, category |-> None]}

AgentShapes ==
    {Agent(c.url, c.issuer_id, "N", t.categories, t.category, c.private_key,
           c.private_key_encrypted, c.key_ok, "ann@x", TRUE) :
        c \in CredentialShapes, t \in TagShapes}

\* The registries of at most two documents, the empty one among them.
Registries ==
    {<<>>} \cup {<<a>> : a \in AgentShapes} \cup {<<a, b>> : a \in AgentShapes, b \in AgentShapes}

RegistryInit ==
    /\ now = 0
    /\ users = [e \in Emails |-> NoUser]
    /\ session = {}
    /\ limiter = [ip \in Ips |-> NoWindow]
    /\ agents \in Registries
    /\ run = [r \in Runs |-> IdleRun]
    /\ admitLog = [c \in Callers |-> <<>>]

\* The requests of anonymous callers over a registry that stays as it is.
RegistryNext ==
    \/ \E r \in Runs : Search(r)
    \/ \E r \in Runs : EmitQuota(r)
    \/ \E r \in Runs : Classify(r)
    \/ \E r \in Runs : Match(r)
    \/ \E r \in Runs : AgentReply(r)
    \/ \E r \in Runs : GatherReturn(r)
    \/ \E r \in Runs : Fallback(r)
    \/ \E r \in Runs : Synthesize(r)
    \/ \E r \in Runs : Finish(r)

RegistrySpec == RegistryInit /\ [][RegistryNext]_vars

\* ------------------------------------------------ two requests at a time

\* Two request slots: two requests served by two threads of the server.
Slots == {"r1", "r2"}

\* The state after ann@x has registered and logged in, with both slots idle.
ConcurrentInit ==
    /\ now = 0
    /\ users = [e \in Emails |-> NewUser]
    /\ session = Emails
    /\ limiter = [ip \in Ips |-> NoWindow]
    /\ agents = Registry
    /\ run = [r \in Slots |-> IdleRun]
    /\ admitLog = [c \in Callers |-> <<>>]

\* Each slot serves one request; the steps of the two interleave freely.
ConcurrentNext ==
    \/ \E r \in Slots : Search(r)
    \/ \E r \in Slots : EmitQuota(r)
    \/ \E r \in Slots : Classify(r)
    \/ \E r \in Slots : Match(r)
    \/ \E r \in Slots : AgentReply(r)
    \/ \E r \in Slots : GatherReturn(r)
    \/ \E r \in Slots : Fallback(r)
    \/ \E r \in Slots : Synthesize(r)

ConcurrentSpec == ConcurrentInit /\ [][ConcurrentNext]_vars

\* ------------------------------------- the gate of search(), step by step

\* search() up to the return of find_document: the document as it was read is
\* a local of the request.
ReadUser(r, email) ==
    /\ run[r].pc = "idle"
    /\ email \in session
    /\ users[email].exists
    /\ run' = [run EXCEPT ![r] =
                  [@ EXCEPT !.pc = "gate",
                            !.caller = [kind |-> "user", id |-> email],
                            !.pre = [requests_left |-> users[email].requests_left,
                                     last_reset_time |-> users[email].last_reset_time,
                                     at |-> now]]]
    /\ UNCHANGED storeVars

\* search() from the document read to the update: the reset, the denial or
\* the decrement are computed from the local copy, and update_document writes
\* the values computed.
DecideUser(r) ==
    /\ run[r].pc = "gate"
    /\ LET email        == run[r].caller.id
           user_doc     == run[r].pre
           parsed       == ParseLastReset(user_doc.last_reset_time)
           reset        == ResetDue(parsed, now)
           requests_0   == IF reset THEN DailyCap ELSE user_doc.requests_left
           last_reset_0 == IF reset THEN NoDate ELSE parsed
           requests_1   == Consume(requests_0)
           last_reset_1 == StampOnConsume(last_reset_0, now)
       IN  IF Exhausted(requests_0)
           THEN /\ run' = Respond(r, run[r].caller,
                                  <<Event("final", UserDeniedMessage)>>, user_doc)
                /\ UNCHANGED <<users, admitLog>>
           ELSE /\ users' = update_document(users, email,
                                [requests_left |-> requests_1,
                                 last_reset_time |-> isoformat(last_reset_1)])
                /\ admitLog' = [admitLog EXCEPT ![email] = Append(@, now)]
                /\ run' = [run EXCEPT ![r] = [@ EXCEPT !.pc = "quota",
                                                       !.decision = "admitted",
                                                       !.requests_left = requests_1,
                                                       !.writes = @ + 1]]
    /\ UNCHANGED <<now, session, limiter, agents>>

\* The state after ann@x has registered and logged in, before any agent is
\* registered, with both slots idle.
RaceInit ==
    /\ now = 0
    /\ users = [e \in Emails |-> NewUser]
    /\ session = Emails
    /\ limiter = [ip \in Ips |-> NoWindow]
    /\ agents = <<>>
    /\ run = [r \in Slots |-> IdleRun]
    /\ admitLog = [c \in Callers |-> <<>>]

\* Requests of the logged-in user in two threads: the reads and the updates of
\* the two interleave, and each slot serves one request after another.
RaceNext ==
    \/ \E r \in Slots : \E email \in Emails : ReadUser(r, email)
    \/ \E r \in Slots : DecideUser(r)
    \/ \E r \in Slots : EmitQuota(r)
    \/ \E r \in Slots : Classify(r)
    \/ \E r \in Slots : Match(r)
    \/ \E r \in Slots : Fallback(r)
    \/ \E r \in Slots : Synthesize(r)
    \/ \E r \in Slots : Finish(r)

RaceSpec == RaceInit /\ [][RaceNext]_vars

\* ------------------------------------------------------- agent management

\* The most documents the registry holds in the runs explored.
MaxAgents == 3

\* The accounts that manage agents, and what their forms can carry.
Owners == {"ann@x", "bob@x"}

Urls == {"https://a", "https://b"}

IssuerIds == {"iss1", "iss2"}

CategoryLists == {<<"Restaurant">>, <<"Plumber", "Bar">>}

\* The index of the first document of the collection with this url, 0 if none:
\* SELECT ... WHERE json_extract(data, '$.url') = ? LIMIT 1
FirstByUrl(store, url) ==
    IF \E i \in 1..Len(store) : store[i].url = url
    THEN CHOOSE i \in 1..Len(store) :
             /\ store[i].url = url
             /\ \A j \in 1..(i - 1) : store[j].url # url
    ELSE 0

\* The index of the first document with this url and issuer id, 0 if none.
FirstByUrlIssuer(store, url, issuer_id) ==
    IF \E i \in 1..Len(store) : store[i].url = url /\ store[i].issuer_id = issuer_id
    THEN CHOOSE i \in 1..Len(store) :
             /\ store[i].url = url /\ store[i].issuer_id = issuer_id
             /\ \A j \in 1..(i - 1) : ~(store[j].url = url /\ store[j].issuer_id = issuer_id)
    ELSE 0

\* DBStorage.add_agent: insert_document, with no check of its own.
add_agent(store, agent) == Append(store, agent)

\* DBStorage.update_agent: update_document with the query {"url": url}; the
\* first document with that url takes every field of agent_data.
update_agent(store, url, agent_data) ==
    IF FirstByUrl(store, url) = 0 THEN store
    ELSE [store EXCEPT ![FirstByUrl(store, url)] = agent_data]

\* DBStorage.delete_agent: delete_document with the query {url, issuer_id}.
delete_agent(store, url, issuer_id) ==
    LET k == FirstByUrlIssuer(store, url, issuer_id)
    IN  IF k = 0 THEN store
        ELSE [i \in 1..(Len(store) - 1) |-> IF i < k THEN store[i] ELSE store[i + 1]]

\* The duplicate check of register_agent.
DuplicateRegistration(store, url, issuer_id) ==
    \E i \in 1..Len(store) : store[i].url = url /\ store[i].issuer_id = issuer_id

\* The url is publicly listed and none of its public listings is the user's.
PubliclyOwnedByOther(store, url, user) ==
    /\ \E i \in 1..Len(store) : store[i].url = url /\ store[i].is_public
    /\ \A i \in 1..Len(store) :
          (store[i].url = url /\ store[i].is_public) => store[i].user_id # user

\* POST /register-agent with a form that passes the validations.
RegisterAgent(user, url, issuer_id, categories, public) ==
    /\ user \in session
    /\ Len(agents) < MaxAgents
    /\ ~DuplicateRegistration(get_registered_agents, url, issuer_id)
    /\ ~PubliclyOwnedByOther(get_registered_agents, url, user)
    /\ agents' = add_agent(agents,
                     Agent(url, issuer_id, url, categories, categories[1],
                           "enc", TRUE, TRUE, user, public))
    /\ UNCHANGED <<now, users, session, limiter, run, admitLog>>

\* POST /edit-agent/<index> by the owner of the document at that index (the
\* route counts from 0).
EditAgent(user, index, url, categories, public) ==
    /\ user \in session
    /\ index \in 1..Len(agents)
    /\ agents[index].user_id = user
    /\ LET agent         == get_registered_agents[index]
           old_url       == agent.url
           updated_agent == [agent EXCEPT !.name = url, !.url = url,
                                          !.categories = categories,
                                          !.category = categories[1],
                                          !.is_public = public]
       IN  agents' = update_agent(agents, old_url, updated_agent)
    /\ UNCHANGED <<now, users, session, limiter, run, admitLog>>

\* POST /delete-agent/<index> by the owner of the document at that index.
DeleteAgent(user, index) ==
    /\ user \in session
    /\ index \in 1..Len(agents)
    /\ agents[index].user_id = user
    /\ agents' = delete_agent(agents, agents[index].url, agents[index].issuer_id)
    /\ UNCHANGED <<now, users, session, limiter, run, admitLog>>

\* An empty registry, with both accounts logged in.
AgentsInit ==
    /\ now = 0
    /\ users = [e \in Emails |-> NewUser]
    /\ session = Owners
    /\ limiter = [ip \in Ips |-> NoWindow]
    /\ agents = <<>>
    /\ run = [r \in Runs |-> IdleRun]
    /\ admitLog = [c \in Callers |-> <<>>]

AgentsNext ==
    \/ \E user \in Owners : \E url \in Urls : \E issuer_id \in IssuerIds :
          \E categories \in CategoryLists : \E public \in BOOLEAN :
              RegisterAgent(user, url, issuer_id, categories, public)
    \/ \E user \in Owners : \E index \in 1..MaxAgents : \E url \in Urls :
          \E categories \in CategoryLists : \E public \in BOOLEAN :
              EditAgent(user, index, url, categories, public)
    \/ \E user \in Owners : \E index \in 1..MaxAgents : DeleteAgent(user, index)

AgentsSpec == AgentsInit /\ [][AgentsNext]_vars


\* ------------------------------------------------------------------ claims

\* The types of a run's events, in the order emitted.
Types(events) == [i \in 1..Len(events) |-> events[i].type]

CountType(events, type) == Cardinality({i \in 1..Len(events) : events[i].type = type})

\* A run the gate decided, whose response is over.
Decided(rn) == Ended(rn) /\ rn.decision \in {"admitted", "denied"}

\* The balance the gate should evaluate, from the document as it was read:
\* the cap when there is no usable timestamp or more than 24 hours have passed.
WindowOver(pre) ==
    pre.last_reset_time.kind # "iso" \/ pre.at - pre.last_reset_time.t > 24

EffectiveBalance(pre) == IF WindowOver(pre) THEN 5 ELSE pre.requests_left

\* C1: every run the gate decided, whatever the outcome of its calls, ends with
\* exactly one final event, and no event ever follows a final event.
C1_ExactlyOneFinalAndLast ==
    \A r \in Runs :
        /\ \A i \in 1..Len(run[r].events) :
              run[r].events[i].type = "final" => i = Len(run[r].events)
        /\ Decided(run[r]) => CountType(run[r].events, "final") = 1

\* C2: every admitted run that is over has emitted quota, category, agents,
\* final, each once and in this order.
C2_FourEventsInOrder ==
    \A r \in Runs :
        (Ended(run[r]) /\ run[r].decision = "admitted")
            => Types(run[r].events) = <<"quota", "category", "agents", "final">>

DenialMessage(caller) ==
    IF caller.kind = "user"
    THEN "Daily request limit reached (5/day). Please wait 24 hours."
    ELSE "Guest limit reached (1/day). Please login or register to get 5 requests/day."

\* C3: a denied run's response is the single final event with the fixed denial
\* message, it never makes a classification, agent, fallback or synthesis
\* call, and an identified caller is denied only with an effective balance <= 0.
C3_DenialShortCircuits ==
    \A r \in Runs :
        run[r].decision = "denied" =>
            /\ Len(run[r].events) = 1
            /\ run[r].events[1].type = "final"
            /\ run[r].events[1].data = DenialMessage(run[r].caller)
            /\ run[r].calls.classify = 0 /\ run[r].calls.send = 0
            /\ run[r].calls.fallback = 0 /\ run[r].calls.synth = 0
            /\ run[r].pc = "done"
            /\ run[r].caller.kind = "user" => EffectiveBalance(run[r].pre) <= 0

C3_Witness ==
    \E r \in Runs :
        /\ run[r].decision = "denied"
        /\ run[r].caller.kind = "user"
        /\ run[r].pre.requests_left = 0
        /\ run[r].events = <<[type |-> "final", data |-> UserDeniedMessage]>>


\* The entries of the agents events a run has emitted.
AgentsEvents(rn) == {i \in 1..Len(rn.events) : rn.events[i].type = "agents"}

IsFallbackEntry(x) ==
    x.agent_url = "None" /\ x.name = "Orchestrator LLM Fallback Responses"

\* C4: an agents event holds one entry per matched agent and one fallback
\* entry, K + 1 in all, whatever the outcomes of the K calls.
C4_AgentsEventHasKPlusOne ==
    \A r \in Runs : \A i \in AgentsEvents(run[r]) :
        LET data == run[r].events[i].data
            K    == Len(run[r].matching_agents)
        IN  /\ Len(data) = K + 1
            /\ IsFallbackEntry(data[K + 1])
            /\ \A j \in 1..K : ~IsFallbackEntry(data[j])

C4_Witness ==
    \E r \in Runs : \E i \in AgentsEvents(run[r]) :
        LET data == run[r].events[i].data
        IN  /\ Len(run[r].matching_agents) = 3
            /\ Len(data) = 4
            /\ data[1].error /\ ~data[2].error /\ data[3].error

\* C5: a call that fails by raising is confined to its agent: no sibling call
\* is cancelled and the run goes on to its agents and final events.
C5_RaisingCallIsConfined ==
    \A r \in Runs :
        (\E i \in 1..Len(run[r].tasks) : run[r].tasks[i].state = "raised")
            => /\ \A j \in 1..Len(run[r].tasks) : run[r].tasks[j].state # "cancelled"
               /\ run[r].pc # "crashed"

\* The admitted runs of a user at or after a time.
AdmittedSince(email, t) ==
    Cardinality({i \in 1..Len(admitLog[email]) : admitLog[email][i] >= t})

\* C6: inside a 24-hour window the stored balance is 5 minus the number of runs
\* admitted since the window's start, a window holds 1 to 5 admitted runs, a
\* record without a window holds 5, and the balance is never negative.
C6_BalanceIsCapMinusAdmitted ==
    \A email \in Emails :
        users[email].exists =>
            LET u == users[email]
            IN  /\ u.requests_left >= 0
                /\ u.last_reset_time.kind = "none" => u.requests_left = 5
                /\ (u.last_reset_time.kind = "iso" /\ now - u.last_reset_time.t <= 24)
                      => /\ AdmittedSince(email, u.last_reset_time.t) \in 1..5
                         /\ u.requests_left = 5 - AdmittedSince(email, u.last_reset_time.t)

C6_Witness ==
    \E email \in Emails :
        /\ users[email].exists
        /\ users[email].last_reset_time.kind = "iso"
        /\ now - users[email].last_reset_time.t <= 24
        /\ AdmittedSince(email, users[email].last_reset_time.t) = 5
        /\ users[email].requests_left = 0

\* The step in which search() decides the request in slot r.
GateStep(r) == run[r].pc = "idle" /\ run'[r].pc # "idle"

\* C7: the step that denies an identified caller leaves the user store as it
\* was; the step that admits one makes one update, which carries the
\* decremented balance together with a timestamp; no later step of the run
\* writes again.
C7_WritesStep ==
    \A r \in Runs :
        /\ (GateStep(r) /\ run'[r].caller.kind = "user" /\ run'[r].decision = "denied")
              => (users' = users /\ run'[r].writes = 0)
        /\ (GateStep(r) /\ run'[r].caller.kind = "user" /\ run'[r].decision = "admitted")
              => LET email == run'[r].caller.id
                 IN  /\ run'[r].writes = 1
                     /\ users'[email].requests_left = run'[r].requests_left
                     /\ users'[email].requests_left = EffectiveBalance(run'[r].pre) - 1
                     /\ users'[email].last_reset_time.kind = "iso"
        /\ (run[r].pc # "idle" /\ run'[r].pc # "idle") => run'[r].writes = run[r].writes

C7_DenialWritesNothing == [][C7_WritesStep]_vars

C7_Witness ==
    \E r \in Runs :
        /\ run[r].decision = "denied"
        /\ run[r].caller.kind = "user"
        /\ run[r].writes = 0
        /\ users[run[r].caller.id].requests_left = run[r].pre.requests_left
        /\ users[run[r].caller.id].last_reset_time = run[r].pre.last_reset_time
        /\ run[r].pre.at - run[r].pre.last_reset_time.t = 24

\* C8: the gate evaluates the cap exactly when the record read has no usable
\* timestamp or more than 24 hours have passed since it, and the stored balance
\* otherwise: the caller is denied exactly when that balance is <= 0, and an
\* admitted run stores that balance minus one and reports it in its quota event
\* with max 5.
C8_ResetExactlyAfter24h ==
    \A r \in Runs :
        (run[r].caller.kind = "user" /\ run[r].decision \in {"admitted", "denied"}) =>
            LET eff == EffectiveBalance(run[r].pre)
            IN  /\ run[r].decision = "denied" <=> eff <= 0
                /\ run[r].decision = "admitted" =>
                      /\ run[r].requests_left = eff - 1
                      /\ (run[r].pc = "quota" /\ now = run[r].pre.at)
                            => users[run[r].caller.id].requests_left = eff - 1
                      /\ \A i \in 1..Len(run[r].events) :
                            run[r].events[i].type = "quota" =>
                                run[r].events[i].data = [remaining |-> eff - 1, max |-> 5]

C8_Witness ==
    \E r \in Runs :
        /\ run[r].caller.kind = "user"
        /\ run[r].decision = "admitted"
        /\ run[r].pre.requests_left = 0
        /\ run[r].pre.last_reset_time.kind = "iso"
        /\ run[r].pre.at - run[r].pre.last_reset_time.t = 30
        /\ users[run[r].caller.id].requests_left = 4
        /\ Len(run[r].events) >= 1
        /\ run[r].events[1] = [type |-> "quota", data |-> [remaining |-> 4, max |-> 5]]

\* C9: the stored requests_left of every registered user is in 0..5.
C9_BalanceInRange ==
    \A email \in Emails :
        users[email].exists => users[email].requests_left \in 0..5

C9_Witness ==
    \E email \in Emails : \E r \in Runs :
        /\ users[email].exists
        /\ users[email].requests_left = 0
        /\ email \in session
        /\ run[r].caller = [kind |-> "user", id |-> email]
        /\ run[r].decision = "admitted"
        /\ run[r].pc = "done"

\* C10: the step that admits an identified caller stores the current time as
\* last_reset_time when the record read had no usable timestamp or one more than
\* 24 hours old, and stores the timestamp it read in every other case.
C10_StampStep ==
    \A r \in Runs :
        (GateStep(r) /\ run'[r].caller.kind = "user" /\ run'[r].decision = "admitted")
            => LET email == run'[r].caller.id
                   old   == users[email].last_reset_time
               IN  users'[email].last_reset_time =
                       IF old.kind # "iso" \/ now - old.t > 24
                       THEN [kind |-> "iso", t |-> now]
                       ELSE old

C10_StampOnlyAfterReset == [][C10_StampStep]_vars

C10_Witness ==
    \E r \in Runs :
        /\ run[r].caller.kind = "user"
        /\ run[r].decision = "admitted"
        /\ run[r].pre.last_reset_time.kind = "iso"
        /\ run[r].pre.at > run[r].pre.last_reset_time.t
        /\ run[r].pre.at - run[r].pre.last_reset_time.t <= 24
        /\ users[run[r].caller.id].last_reset_time = run[r].pre.last_reset_time


\* A registration that cannot be used for a signed request: no url, no issuer
\* id, no stored key, or an encrypted key that does not decrypt.
CredentialUnusable(agent) ==
    \/ agent.url = ""
    \/ agent.issuer_id = ""
    \/ agent.private_key = ""
    \/ (agent.private_key_encrypted /\ ~agent.key_ok)

Usable(tasks) == {i \in 1..Len(tasks) : ~CredentialUnusable(tasks[i].agent)}

\* C11: a matched agent whose url, issuer id or key is missing, or whose key
\* does not decrypt, has its error-marked response at once and is never called
\* out to; an outbound call is made for each of its siblings and for them only.
C11_CredentialFailureMakesNoCall ==
    \A r \in Runs :
        /\ \A i \in 1..Len(run[r].tasks) :
              CredentialUnusable(run[r].tasks[i].agent) =>
                  /\ run[r].tasks[i].state = "done"
                  /\ run[r].tasks[i].response.error
                  /\ run[r].tasks[i].response.result = "None"
        /\ run[r].calls.send = Cardinality(Usable(run[r].tasks))
        /\ \A i \in Usable(run[r].tasks) :
              run[r].pc = "gather" => run[r].tasks[i].state \in {"inflight", "done"}

C11_Witness ==
    \E r \in Runs :
        /\ Len(run[r].tasks) = 2
        /\ run[r].tasks[1].agent.private_key_encrypted
        /\ ~run[r].tasks[1].agent.key_ok
        /\ run[r].tasks[1].state = "done"
        /\ run[r].tasks[1].response.error
        /\ run[r].tasks[2].state = "done"
        /\ ~run[r].tasks[2].response.error
        /\ run[r].calls.send = 1
        /\ run[r].pc = "done"


\* The number of entries of a list that carry no error marker.
CountUnmarked(list) == Cardinality({j \in 1..Len(list) : ~list[j].error})

\* C12: once the synthesis context is built, every response of the run is in
\* the agents event; the context holds the unmarked ones, each once, and none
\* that carries an error marker.
C12_ContextIsTheUnmarkedResponses ==
    \A r \in Runs :
        run[r].calls.synth > 0 =>
            \E i \in AgentsEvents(run[r]) :
                LET data == run[r].events[i].data
                IN  /\ \A j \in 1..Len(run[r].tasks) :
                          \E k \in 1..Len(data) : data[k] = run[r].tasks[j].response
                    /\ \A k \in 1..Len(data) :
                          IF data[k].error
                          THEN \A c \in 1..Len(run[r].context) : run[r].context[c] # data[k]
                          ELSE \E c \in 1..Len(run[r].context) : run[r].context[c] = data[k]
                    /\ Len(run[r].context) = CountUnmarked(data)
                    /\ \A c \in 1..Len(run[r].context) : ~run[r].context[c].error

C12_Witness ==
    \E r \in Runs : \E i \in AgentsEvents(run[r]) :
        /\ run[r].calls.synth = 1
        /\ Len(run[r].events[i].data) = 4
        /\ run[r].events[i].data[1].error
        /\ ~run[r].events[i].data[2].error
        /\ run[r].events[i].data[3].error
        /\ Len(run[r].context) = 2
        /\ run[r].context[1] = run[r].events[i].data[2]
        /\ IsFallbackEntry(run[r].context[2])


\* C13: whatever its outcome, the fallback call leaves the run going: once the
\* call was made the agents event is there with the fallback entry last in it,
\* and the run, when it is over, has ended with its final event.
C13_FallbackFailureKeepsRun ==
    \A r \in Runs :
        run[r].calls.fallback > 0 =>
            /\ \E i \in AgentsEvents(run[r]) :
                  IsFallbackEntry(run[r].events[i].data[Len(run[r].events[i].data)])
            /\ Ended(run[r]) =>
                  run[r].events[Len(run[r].events)].type = "final"


\* C14: whatever the classification call gives back, the run goes on: once the
\* call was made the category event is there, and a run left without any
\* category matches no agent and still makes its fallback call.
C14_ClassificationFailureKeepsRun ==
    \A r \in Runs :
        run[r].calls.classify > 0 =>
            /\ CountType(run[r].events, "category") = 1
            /\ run[r].predicted_category = <<>> =>
                  /\ run[r].matching_agents = <<>>
                  /\ run[r].calls.send = 0
                  /\ Ended(run[r]) => run[r].calls.fallback = 1


\* C15: the step that makes the synthesis call appends the final event to the
\* events already emitted and ends the run; when the call raised, the event's
\* data is "Synthesis failed.".
C15_SynthesisStep ==
    \A r \in Runs :
        (run[r].pc = "synth" /\ run'[r].pc # "synth") =>
            /\ run'[r].pc = "done"
            /\ Len(run'[r].events) = Len(run[r].events) + 1
            /\ SubSeq(run'[r].events, 1, Len(run[r].events)) = run[r].events
            /\ Types(run'[r].events) = <<"quota", "category", "agents", "final">>
            /\ run'[r].synthesis = "raises" =>
                  run'[r].events[Len(run'[r].events)].data = "Synthesis failed."

C15_SynthesisFailureStillFinal == [][C15_SynthesisStep]_vars

C15_Witness ==
    \E r \in Runs :
        /\ run[r].synthesis = "raises"
        /\ run[r].pc = "done"
        /\ Len(run[r].events) = 4
        /\ run[r].events[3].type = "agents"
        /\ run[r].events[4] = [type |-> "final", data |-> "Synthesis failed."]


\* The fallback call of a run is being made or has been made.
FallbackStarted(rn) == rn.pc = "fallback" \/ rn.calls.fallback > 0

AgentCallsInFlight(rn) == {i \in 1..Len(rn.tasks) : rn.tasks[i].state = "inflight"}

C17_AgentsEventAfterEveryCall ==
    \A r \in Runs :
        (AgentsEvents(run[r]) # {} \/ run[r].pc = "synth" \/ run[r].calls.synth > 0) =>
            /\ \A i \in 1..Len(run[r].tasks) : run[r].tasks[i].state = "done"
            /\ run[r].calls.fallback = 1
            /\ Cardinality(AgentsEvents(run[r])) = 1
            /\ \A e \in AgentsEvents(run[r]) :
                  LET data == run[r].events[e].data
                  IN  /\ Len(data) = Len(run[r].tasks) + 1
                      /\ \A i \in 1..Len(run[r].tasks) : data[i] = run[r].tasks[i].response
                      /\ IsFallbackEntry(data[Len(data)])

C17_Witness ==
    \E r \in Runs : \E e \in AgentsEvents(run[r]) :
        /\ run[r].pc = "synth"
        /\ Len(run[r].tasks) = 3
        /\ run[r].calls.send = 2
        /\ run[r].tasks[1].response.result = "error"
        /\ run[r].tasks[2].response.result = "ok"
        /\ run[r].tasks[3].response.result = "None"
        /\ Len(run[r].events[e].data) = 4


\* The tags of an agent document: its list, or its single legacy field when
\* the list is absent or empty.
Tags(agent) ==
    IF agent.categories # <<>> THEN {agent.categories[i] : i \in 1..Len(agent.categories)}
    ELSE IF agent.category # "None" THEN {agent.category}
    ELSE {}

\* The matching loop of a run is over.
Matched(rn) == CountType(rn.events, "category") = 1 /\ rn.pc # "match"

\* C18: the matched agents of a run are the documents of the registry, in its
\* order and each as often as it is stored, whose tags share a category with
\* the predicted ones; with no predicted category or an empty registry nothing
\* is matched and the run goes on to its fallback call.
C18_MatchedSetIsTagIntersection ==
    \A r \in Runs :
        Matched(run[r]) =>
            /\ run[r].matching_agents =
                  SelectSeq(agents, LAMBDA a :
                      \E c \in Tags(a) : \E k \in 1..Len(run[r].predicted_category) :
                          run[r].predicted_category[k] = c)
            /\ (run[r].predicted_category = <<>> \/ agents = <<>>) =>
                  /\ run[r].matching_agents = <<>>
                  /\ run[r].calls.send = 0
                  /\ run[r].calls.fallback = 0 => run[r].pc = "fallback"

C18_Witness ==
    \E r \in Runs :
        /\ Matched(run[r])
        /\ run[r].predicted_category = <<"Restaurant">>
        /\ Len(agents) = 2
        /\ agents[1].categories = <<"Restaurant", "Bar">>
        /\ agents[2].categories = <<"Plumber">>
        /\ agents[2].category = "None"
        /\ run[r].matching_agents = <<agents[1]>>


\* C19: no agent is called out to more than once and no run makes more than one
\* fallback call; an admitted run that is over has one resolved response for
\* each matched agent and has made exactly one fallback call.
C19_OneCallOneResponseOneFallback ==
    \A r \in Runs :
        /\ \A i \in 1..Len(run[r].tasks) : run[r].tasks[i].sent <= 1
        /\ run[r].calls.fallback <= 1
        /\ (Ended(run[r]) /\ run[r].decision = "admitted") =>
              /\ Len(run[r].tasks) = Len(run[r].matching_agents)
              /\ \A i \in 1..Len(run[r].tasks) : run[r].tasks[i].state = "done"
              /\ run[r].calls.fallback = 1


\* An anonymous identity has a run admitted less than 24 hours ago: its
\* limiter window, which that admission opened, is still running.
GuestWindowRunning(ip) ==
    \E i \in 1..Len(admitLog[ip]) : now - admitLog[ip][i] < 24

\* C20: the step that decides an anonymous request denies it when a run of the
\* same identity was admitted less than 24 hours before: the response is then
\* the single final event with the guest message and nothing is admitted; no
\* two admitted runs of one identity are less than 24 hours apart.
C20_GuestStep ==
    \A r \in Runs :
        (GateStep(r) /\ run'[r].caller.kind = "guest") =>
            LET ip == run'[r].caller.id
            IN  /\ GuestWindowRunning(ip) =>
                      /\ run'[r].decision = "denied"
                      /\ run'[r].pc = "done"
                      /\ run'[r].events =
                            <<[type |-> "final",
                               data |-> "Guest limit reached (1/day). Please login or register to get 5 requests/day."]>>
                      /\ admitLog'[ip] = admitLog[ip]
                /\ \A i \in 1..Len(admitLog'[ip]) : \A j \in 1..Len(admitLog'[ip]) :
                      i < j => admitLog'[ip][j] - admitLog'[ip][i] >= 24

C20_GuestOnePerWindow == [][C20_GuestStep]_vars

C20_Witness ==
    \E r \in Runs :
        /\ run[r].decision = "denied"
        /\ run[r].caller.kind = "guest"
        /\ Len(admitLog[run[r].caller.id]) = 1
        /\ now - admitLog[run[r].caller.id][1] = 18
        /\ Len(run[r].events) = 1
        /\ run[r].events[1].type = "final"
        /\ run[r].events[1].data = GuestDeniedMessage


\* The quota events a run has emitted.
QuotaEvents(rn) == {i \in 1..Len(rn.events) : rn.events[i].type = "quota"}

\* C21: the quota event of an admitted identified run carries the balance its
\* own admission wrote (the balance the gate evaluated, minus one) with max 5,
\* whatever the store holds when the event is emitted; the quota event of an
\* admitted anonymous run carries remaining 0 and max 1.
C21_QuotaIsAdmissionSnapshot ==
    \A r \in Runs : \A i \in QuotaEvents(run[r]) :
        /\ run[r].decision = "admitted"
        /\ run[r].caller.kind = "user" =>
              run[r].events[i].data =
                  [remaining |-> EffectiveBalance(run[r].pre) - 1, max |-> 5]
        /\ run[r].caller.kind = "guest" =>
              run[r].events[i].data = [remaining |-> 0, max |-> 1]

\* The store was renewed by a login between the admission and the event.
C21_Witness ==
    \E r \in Runs : \E i \in QuotaEvents(run[r]) :
        /\ run[r].caller.kind = "user"
        /\ run[r].pc = "classify"
        /\ run[r].events[i].data = [remaining |-> 3, max |-> 5]
        /\ users[run[r].caller.id].requests_left = 5


\* C22: the step in which the read or the update of the user store fails ends
\* the request without any event and without any call, and leaves the store
\* as it was; nothing of the pipeline runs for that request afterwards.
C22_StoreFailureStep ==
    \A r \in Runs :
        /\ (GateStep(r) /\ run'[r].decision = "error") =>
              /\ users' = users
              /\ run'[r].pc = "failed"
              /\ run'[r].events = <<>>
              /\ run'[r].calls = [classify |-> 0, send |-> 0, fallback |-> 0, synth |-> 0]
              /\ run'[r].writes = 0
        /\ (run[r].decision = "error" /\ run'[r].decision = "error") => run'[r] = run[r]

C22_StoreFailureFailsRequest == [][C22_StoreFailureStep]_vars

\* The update failed after the gate had evaluated a usable balance.
C22_Witness ==
    \E r \in Runs :
        /\ run[r].decision = "error"
        /\ run[r].caller.kind = "user"
        /\ run[r].pre.at > 0
        /\ run[r].pre.requests_left = 2
        /\ users[run[r].caller.id].requests_left = 2
        /\ run[r].events = <<>>


\* C23: while the run waits in dispatch, the outbound call of every matched
\* agent with usable credentials has been started, however many of its
\* siblings are still unresolved; dispatch is left, other than by an
\* exception, only with every task resolved.
C23_AgentCallsInFlightTogether ==
    \A r \in Runs :
        /\ run[r].pc = "gather" =>
              \A i \in Usable(run[r].tasks) :
                  /\ run[r].tasks[i].sent = 1
                  /\ run[r].tasks[i].state \in {"inflight", "done"}
        /\ (run[r].pc \in {"fallback", "synth", "done"}) =>
              \A i \in 1..Len(run[r].tasks) : run[r].tasks[i].state = "done"

C23_Witness ==
    \E r \in Runs :
        /\ run[r].pc = "gather"
        /\ Cardinality(Usable(run[r].tasks)) = 2
        /\ \A i \in Usable(run[r].tasks) : run[r].tasks[i].state = "inflight"


\* C24: a call is made only with the event of the stage before it already
\* emitted: the classification call after the quota event, the agent calls and
\* the fallback call after the category event, the synthesis call after the
\* agents event.
C24_CallStep ==
    \A r \in Runs :
        /\ run'[r].calls.classify > run[r].calls.classify =>
              Types(run[r].events) = <<"quota">>
        /\ (run'[r].calls.send > run[r].calls.send
               \/ run'[r].calls.fallback > run[r].calls.fallback) =>
              Types(run[r].events) = <<"quota", "category">>
        /\ run'[r].calls.synth > run[r].calls.synth =>
              Types(run[r].events) = <<"quota", "category", "agents">>

C24_EventsBeforeNextStage == [][C24_CallStep]_vars

\* The agents event is out and the synthesis call is still to be answered.
C24_Witness ==
    \E r \in Runs :
        /\ run[r].pc = "synth"
        /\ run[r].calls.synth = 0
        /\ run[r].calls.send = 2
        /\ Types(run[r].events) = <<"quota", "category", "agents">>


\* The events of a run are built from what the run itself holds: the category
\* event from its predicted categories, the matched agents from the registry
\* and those categories, the tasks from its matched agents, the agents event
\* from its tasks' responses and the fallback entry, the context from that list.
BuiltFromOwn(rn) ==
    /\ \A i \in 1..Len(rn.events) :
          rn.events[i].type = "category" => rn.events[i].data = Join(rn.predicted_category)
    /\ Matched(rn) =>
          rn.matching_agents =
              SelectSeq(agents, LAMBDA a :
                  \E c \in Tags(a) : \E k \in 1..Len(rn.predicted_category) :
                      rn.predicted_category[k] = c)
    /\ Len(rn.tasks) = Len(rn.matching_agents)
    /\ \A i \in 1..Len(rn.tasks) :
          /\ rn.tasks[i].agent = rn.matching_agents[i]
          /\ (rn.tasks[i].state = "done" /\ rn.tasks[i].sent = 1) =>
                /\ rn.tasks[i].response.name = rn.matching_agents[i].name
                /\ rn.tasks[i].response.agent_url = rn.matching_agents[i].url
    /\ \A e \in AgentsEvents(rn) :
          /\ Len(rn.events[e].data) = Len(rn.tasks) + 1
          /\ \A i \in 1..Len(rn.tasks) : rn.events[e].data[i] = rn.tasks[i].response
          /\ rn.calls.synth > 0 =>
                rn.context = SelectSeq(rn.events[e].data, LAMBDA x : ~x.error)

\* C25: with two requests served at a time, in any interleaving of their
\* steps, the category, agents and final events of each are built from its own
\* categories, its own matched agents and its own responses.
C25_RunsShareNoState ==
    \A r \in Slots : BuiltFromOwn(run[r])

\* One run is over with its own agents event while the other, with other
\* categories, still waits for its own agent.
C25_Witness ==
    /\ run["r1"].pc = "done"
    /\ run["r1"].predicted_category = <<"Restaurant">>
    /\ Len(run["r1"].matching_agents) = 2
    /\ run["r2"].pc = "gather"
    /\ run["r2"].predicted_category = <<"Plumber">>
    /\ Len(run["r2"].matching_agents) = 1
    /\ run["r2"].tasks[1].state = "inflight"
    /\ run["r2"].calls.classify = 1


\* C26: the step that decides an anonymous request leaves the user store and
\* the users' admissions as they were, and its decision follows from the
\* identity's own admissions alone; the step that decides an identified
\* request leaves every limiter window as it was, and its decision follows
\* from the user's record alone.
C26_GateFrameStep ==
    \A r \in Runs :
        /\ (GateStep(r) /\ run'[r].caller.kind = "guest") =>
              /\ users' = users
              /\ \A e \in Emails : admitLog'[e] = admitLog[e]
              /\ run'[r].writes = 0
              /\ run'[r].decision = "denied" <=> GuestWindowRunning(run'[r].caller.id)
        /\ (GateStep(r) /\ run'[r].caller.kind = "user") =>
              /\ limiter' = limiter
              /\ \A ip \in Ips : admitLog'[ip] = admitLog[ip]
              /\ run'[r].decision = "denied" <=>
                    (users[run'[r].caller.id].exists /\ run'[r].pre.at = now
                     /\ EffectiveBalance(run'[r].pre) <= 0
                     /\ run'[r].pre.requests_left = users[run'[r].caller.id].requests_left)

C26_GuestAndUserGatesApart == [][C26_GateFrameStep]_vars

\* A logged-in caller is admitted from an address whose anonymous window is
\* used up, and the window stays as it was.
C26_Witness ==
    \E r \in Runs : \E ip \in Ips :
        /\ run[r].caller.kind = "user"
        /\ run[r].decision = "admitted"
        /\ run[r].pre.at = now
        /\ limiter[ip].hits = 1
        /\ limiter[ip].expires > now
        /\ Len(admitLog[ip]) = 1


\* C27: no two documents of the registry have the same url and issuer id.
C27_UrlIssuerUnique ==
    \A i \in 1..Len(agents) : \A j \in 1..Len(agents) :
        (agents[i].url = agents[j].url /\ agents[i].issuer_id = agents[j].issuer_id)
            => i = j


\* The admitted runs of a user in the 24 hours up to now.
AdmittedLast24h(email) ==
    Cardinality({i \in 1..Len(admitLog[email]) : now - admitLog[email][i] < 24})

\* C28: at any time, the 24 hours up to then hold at most 5 admitted runs of
\* the same user.
C28_AtMostFivePer24h ==
    \A email \in Emails : AdmittedLast24h(email) <= 5

\* C28 as amended: at most 5 runs of a user are admitted under one stamped
\* window start, each within 24 hours of it; the 24 hours up to any time can
\* span two windows and hold at most 9 admitted runs of the user.
C28_AtMostFivePerWindow ==
    \A email \in Emails :
        /\ AdmittedLast24h(email) <= 9
        /\ Len(admitLog[email]) <= 9
        /\ users[email].last_reset_time.kind = "iso" =>
              LET t0 == users[email].last_reset_time.t
                  in_window == {i \in 1..Len(admitLog[email]) : admitLog[email][i] >= t0}
              IN  /\ Cardinality(in_window) <= 5
                  /\ \A i \in in_window : admitLog[email][i] - t0 <= 24

\* Four runs admitted at the end of one window and five at the start of the
\* next, six hours later.
C28_Witness ==
    \E email \in Emails :
        /\ AdmittedLast24h(email) = 9
        /\ users[email].requests_left = 0
        /\ users[email].last_reset_time = [kind |-> "iso", t |-> now]


\* No request is between its read and its update of the user store.
GateQuiet == \A r \in Slots : run[r].pc # "gate"

\* C29: with requests of one user in two threads, no more than 5 runs are
\* admitted under one stamped window start, and whenever no request is between
\* its read and its update the stored balance is 5 minus the runs admitted
\* since that start.
C29_NoDecrementLost ==
    \A email \in Emails :
        users[email].last_reset_time.kind = "iso" =>
            /\ AdmittedSince(email, users[email].last_reset_time.t) <= 5
            /\ GateQuiet =>
                  users[email].requests_left =
                      5 - AdmittedSince(email, users[email].last_reset_time.t)

\* ------------------------------------------------------- login and the quota

\* The state after ann@x registered, logged in, spent one credit at time 0 and
\* logged out again, before any agent is registered.
LoginInit ==
    /\ now = 0
    /\ users = [e \in Emails |->
                  [exists |-> TRUE, requests_left |-> DailyCap - 1,
                   last_reset_time |-> [kind |-> "iso", t |-> 0]]]
    /\ session = {}
    /\ limiter = [ip \in Ips |-> NoWindow]
    /\ agents = <<>>
    /\ run = [r \in Runs |-> IdleRun]
    /\ admitLog = [c \in Callers |-> IF c \in Emails THEN <<0>> ELSE <<>>]

\* Logins, logouts and searches of the registered user while time passes.
LoginNext ==
    \/ \E e \in Emails : Login(e)
    \/ \E e \in Emails : Logout(e)
    \/ \E r \in Runs : Search(r)
    \/ \E r \in Runs : EmitQuota(r)
    \/ \E r \in Runs : Classify(r)
    \/ \E r \in Runs : Match(r)
    \/ \E r \in Runs : Fallback(r)
    \/ \E r \in Runs : Synthesize(r)
    \/ \E r \in Runs : Finish(r)
    \/ Tick

LoginSpec == LoginInit /\ [][LoginNext]_vars

\* The stored stamp of a user lies inside its 24-hour window.
ActiveWindow(email) ==
    /\ users[email].last_reset_time.kind = "iso"
    /\ now - users[email].last_reset_time.t <= WindowHours

\* A step that logs a user in, or logs in a user who is logged in already.
C30_LoginStep ==
    \A e \in Emails :
        (/\ users[e].exists
         /\ run' = run
         /\ now' = now
         /\ session \subseteq session')
        => IF ActiveWindow(e)
           THEN users'[e] = users[e]
           ELSE /\ users'[e].requests_left = DailyCap
                /\ users'[e].last_reset_time.kind = "none"

\* C30: a successful login renews the credits (5 left, stamp cleared) only
\* when the stored stamp is unset, unparseable or more than 24 hours old; a
\* login inside an active window leaves the balance and the stamp as they
\* were, so logging out and in again never restores spent credits.
C30_LoginRenewsOnlyOutsideWindow == [][C30_LoginStep]_vars

\* The user logged in inside the window opened at time 0, with no admission
\* since the one of time 0, and still has the spent balance and the stamp.
C30_Witness ==
    /\ "ann@x" \in session
    /\ ActiveWindow("ann@x")
    /\ users["ann@x"].requests_left = DailyCap - 1
    /\ users["ann@x"].last_reset_time.t = 0
    /\ admitLog["ann@x"] = <<0>>

\* The matched agents of a registry for a list of predicted categories, in the
\* order of the registry.
MatchedInRegistryOrder(registry, predicted_category) ==
    SelectSeq(registry,
              LAMBDA a : Tags(a) \cap {predicted_category[i] : i \in 1..Len(predicted_category)} # {})

\* The url an entry shows for an agent document without a url.
UnknownUrl == "Unknown"

\* The i-th entry of every agents event is the response of the i-th matched
\* agent, the matched agents are in registry order, and the last entry is the
\* fallback with no url.
C31_EntriesInOrder(rn) ==
    \A i \in AgentsEvents(rn) :
        LET data == rn.events[i].data
            K    == Len(rn.matching_agents)
        IN  /\ rn.matching_agents = MatchedInRegistryOrder(agents, rn.predicted_category)
            /\ Len(data) = K + 1
            /\ \A k \in 1..K :
                  /\ rn.tasks[k].agent = rn.matching_agents[k]
                  /\ data[k] = rn.tasks[k].response
                  /\ ~data[k].error => data[k].name = rn.matching_agents[k].name
            /\ data[K + 1].agent_url = None
            /\ data[K + 1].name = FallbackName

SynthesisCalled(rn) == rn.calls.synth > 0

\* C32: whenever the synthesis call is made, its context holds the fallback
\* entry, labelled with no url, so the context is not empty, also when no
\* agent matched or every agent response is error-marked.
C32_ContextHoldsFallback ==
    \A r \in Runs :
        SynthesisCalled(run[r]) =>
            /\ Len(run[r].context) >= 1
            /\ \E k \in 1..Len(run[r].context) : IsFallbackEntry(run[r].context[k])

\* The synthesis call was made after a matched agent gave an error-marked
\* response: the context is the fallback entry alone.
C32_Witness ==
    \E r \in Runs :
        /\ SynthesisCalled(run[r])
        /\ Len(run[r].matching_agents) >= 1
        /\ \A k \in 1..Len(run[r].matching_agents) : run[r].agent_responses[k].error
        /\ Len(run[r].context) = 1

\* The run in this slot was admitted for a logged-in caller.
AdmittedUserRun(rn) == rn.decision = "admitted" /\ rn.caller.kind = "user"

\* A step of the run in slot r after its admission: an event is emitted, a
\* call is made or fails, or the response ends.
RunStep(r) == run[r].pc # "idle" /\ run'[r] # run[r]

C33_RunStep ==
    \A r \in Runs :
        AdmittedUserRun(run[r]) /\ RunStep(r) =>
            /\ run[r].writes = 1
            /\ users' = users
            /\ run'[r].writes \in {0, 1}

\* C33: the credit of an admitted identified run is consumed before any event
\* is emitted and is never given back: the store update has been made when
\* the quota event is emitted, and no later step of the run (an event, a call
\* that succeeds or fails, the end of the stream) changes the user store.
C33_CreditConsumedNeverRefunded == [][C33_RunStep]_vars

\* The stream of an admitted logged-in caller ended on the failure of the
\* classification, after the quota event alone; the store still holds the
\* balance the admission wrote.
C33_Witness ==
    \E r \in Runs :
        /\ AdmittedUserRun(run[r])
        /\ run[r].pc = "crashed"
        /\ Len(run[r].events) = 1
        /\ run[r].events[1].type = "quota"
        /\ users[run[r].caller.id].requests_left = run[r].requests_left
        /\ run[r].requests_left = DailyCap - 1

\* The indexes of the registry whose document a step changes in place.
ChangedInPlace == {i \in 1..Len(agents) : i <= Len(agents') /\ agents'[i] # agents[i]}

\* An edit keeps the owner and the issuer id of the document it changes (the
\* form of edit_agent carries neither), and changes one document only.
C34_EditStep ==
    Len(agents') = Len(agents) =>
        /\ Cardinality(ChangedInPlace) <= 1
        /\ \A i \in ChangedInPlace :
              /\ agents'[i].user_id = agents[i].user_id
              /\ agents'[i].issuer_id = agents[i].issuer_id

\* C34: no agent record is modified or deleted by a user other than its
\* owner: an edit changes only the record selected by the index, which the
\* requesting user owns, so the record an edit changes keeps its owner and
\* its issuer id.
C34_OnlyOwnerModifies == [][C34_EditStep]_vars

\* The url has a public record in the registry, and none of its public
\* records is owned by this user.
PublicOfAnother(url, user) ==
    /\ \E i \in 1..Len(agents) : agents[i].url = url /\ agents[i].is_public
    /\ \A i \in 1..Len(agents) :
          (agents[i].url = url /\ agents[i].is_public) => agents[i].user_id # user

\* The indexes of the records a register or edit step puts on a url: the
\* record appended, and a record whose url the step changes.
PutOnUrl ==
    {i \in 1..Len(agents') : i > Len(agents) \/ agents'[i].url # agents[i].url}

C35_AcquireStep ==
    Len(agents') >= Len(agents) =>
        \A i \in PutOnUrl : ~PublicOfAnother(agents'[i].url, agents'[i].user_id)

\* C35: a user cannot acquire a record for a url that is already publicly
\* registered by a different owner: no register or edit step creates a record
\* on, or moves a record onto, a url that has a public record of another user
\* when the record's owner owns no public record of that url.
C35_NoAcquiringPublicUrl == [][C35_AcquireStep]_vars

\* The registries that differ from this one only in the visibility flags and
\* the owners of its documents.
Relabelled(registry) ==
    {[i \in 1..Len(registry) |->
         [registry[i] EXCEPT !.is_public = f[i][1], !.user_id = f[i][2]]] :
        f \in [1..Len(registry) -> BOOLEAN \X Owners]}

\* A list of documents without their visibility flags and owners.
Unlabelled(list) ==
    [i \in 1..Len(list) |-> [list[i] EXCEPT !.is_public = TRUE, !.user_id = None]]

\* The matching loop of the run has just ended.
JustMatched(rn) == rn.pc \in {"gather", "fallback"} /\ rn.calls.fallback = 0

\* C36: the matched set depends only on the category tags: every registry
\* that differs from the stored one only in visibility flags or owners gives
\* the same matched agents, whoever the caller is, so an agent marked private
\* is sent the query of any caller, anonymous callers and other users' too.
C36_MatchingIgnoresVisibility ==
    \A r \in Slots :
        JustMatched(run[r]) =>
            /\ run[r].matching_agents = FilterSeq(agents, run[r].predicted_category)
            /\ \A other \in Relabelled(agents) :
                  Unlabelled(FilterSeq(other, run[r].predicted_category))
                      = Unlabelled(run[r].matching_agents)

\* The query of an anonymous caller and the query of a logged-in user are
\* both out to the same private agent.
C36_Witness ==
    \E r \in Slots : \E o \in Slots : \E k \in 1..Len(run[r].tasks) :
        /\ run[r].pc = "gather" /\ run[o].pc = "gather"
        /\ run[r].caller.kind = "guest" /\ run[o].caller.kind = "user"
        /\ run[o].tasks = run[r].tasks
        /\ ~run[r].tasks[k].agent.is_public
        /\ run[r].tasks[k].state = "inflight"
        /\ run[r].tasks[k].sent = 1

====
